---- MODULE Spec2Model ----
(***************************************************************************)
(* MT5 Keeper / MT5CommandBase: the file-mediated command/result channel,  *)
(* the singleton Keeper loop with its lock, and the heartbeat/reconnect    *)
(* supervisor.                                                             *)
(*   core/mt5_keeper.py        MT5Keeper                                   *)
(*   core/mt5_command_base.py  MT5CommandBase.send_command                 *)
(*                                                                         *)
(* Time is discrete.  A step that neither sleeps nor waits for the         *)
(* terminal takes no time, and time.sleep(d) lasts exactly d.  Every       *)
(* timestamp the code keeps (last_heartbeat, last_reconnect_attempt,       *)
(* start_time) is held as the time elapsed since it was taken, saturating  *)
(* just above the interval it is compared with; a sleep is held as the     *)
(* time it still has to run.                                               *)
(***************************************************************************)
EXTENDS Integers, FiniteSets, Sequences, TLC

\* ---------------------------------------------------------------- bounds
NumKeepers == 2
NumClients == 2
MaxChecks == 10     \* connection checks of the MT5Client
MaxThreads == 2     \* monitoring threads the MT5Client creates

\* ------------------------------------------- configuration (clock units)
Timeout == 1
PollInterval == 1
CommandCheckInterval == 1
HeartbeatInterval == 2
ReconnectInterval == 2

Keepers == 1..NumKeepers
Clients == 1..NumClients
Ids == 1..NumClients
Kinds == {"ping", "query", "bad"}

\* the largest elapsed time a client's clock distinguishes
ElapsedCap == Timeout + PollInterval + 1

VARIABLES
    lockExists,   \* mt5keeper.lock exists in the working directory
    holds,        \* Keeper: it holds the exclusive flock (lock_file_handle is locked)
    lockContent,  \* the pid text in the lock file, 0 when empty
    writable,     \* the commands directory grants write access: os.access(commands_dir, os.W_OK)
    commands,     \* commands/<id>.json: "absent", "partial" or the command kind
    results,      \* results/<id>.json: a file record
    nextId,       \* the next fresh uuid
    kpc,          \* Keeper: position in start()
    running,      \* Keeper: self.running
    connected,    \* Keeper: self.connected
    sinceHB,      \* Keeper: now - self.last_heartbeat
    sinceRA,      \* Keeper: now - self.last_reconnect_attempt
    queue,        \* Keeper: command_files still to process in this drain
    cur,          \* Keeper: command_id being processed, 0 when none
    resp,         \* Keeper: response prepared for cur
    ksleep,       \* Keeper: what is left of the current time.sleep
    cpc,          \* client: position in send_command
    cid,          \* client: command_id generated by this call, 0 before
    ckind,        \* client: command_type of this call
    elapsed,      \* client: time.time() - start_time
    csleep,       \* client: what is left of the current time.sleep
    outcome,      \* client: how send_command ended
    cres,         \* client: result_data read
    hist,         \* history of the run (observations only, never read by an action)
    conf,         \* the configuration files and what the processes loaded from them
    gui           \* the MT5Client of the graphical interface and its monitoring threads

kvars == <<kpc, running, connected, sinceHB, sinceRA, queue, cur, resp, ksleep>>
cvars == <<cpc, cid, ckind, elapsed, csleep, outcome, cres>>
lvars == <<lockExists, holds, lockContent>>
vars == <<lvars, writable, commands, results, nextId, kvars, cvars, hist, conf, gui>>

\* ------------------------------------------------------------ file records
NoFile == [st |-> "absent", command_id |-> 0, status |-> "none", body |-> "none"]
PartialFile == [st |-> "partial", command_id |-> 0, status |-> "none", body |-> "none"]

\* (mutant) a response that does not carry the id of the command file
SuccessResponseNoId(id, payload) ==
    [st |-> "complete", command_id |-> 0, status |-> "success", body |-> payload]

\* the response of _process_command_file on the normal path
SuccessResponse(id, payload) ==
    [st |-> "complete", command_id |-> id, status |-> "success", body |-> payload]

\* the response of _process_command_file on the except path
ErrorResponse(id, msg) ==
    [st |-> "complete", command_id |-> id, status |-> "error", body |-> msg]

\* ------------------------------------------------------------------- Init
Live == {"connect", "loop", "top", "drain", "handler", "write", "dump", "remove", "sleep"}
Ended == {"lock_failed", "exit", "stopped", "crashed"}

\* nk Keeper processes and nc client processes will be launched
InitWith(nk, nc) ==
    /\ lockExists = FALSE
    /\ holds = [k \in Keepers |-> FALSE]
    /\ lockContent = 0
    /\ writable = TRUE
    /\ commands = [i \in Ids |-> "absent"]
    /\ results = [i \in Ids |-> NoFile]
    /\ nextId = 1
    /\ kpc = [k \in Keepers |-> IF k <= nk THEN "new" ELSE "off"]
    /\ running = [k \in Keepers |-> FALSE]
    /\ connected = [k \in Keepers |-> FALSE]
    /\ sinceHB = [k \in Keepers |-> 0]
    /\ sinceRA = [k \in Keepers |-> 0]
    /\ queue = [k \in Keepers |-> {}]
    /\ cur = [k \in Keepers |-> 0]
    /\ resp = [k \in Keepers |-> NoFile]
    /\ ksleep = [k \in Keepers |-> 0]
    /\ cpc = [c \in Clients |-> IF c <= nc THEN "idle" ELSE "off"]
    /\ cid = [c \in Clients |-> 0]
    /\ ckind = [c \in Clients |-> "none"]
    /\ elapsed = [c \in Clients |-> 0]
    /\ csleep = [c \in Clients |-> 0]
    /\ outcome = [c \in Clients |-> "none"]
    /\ cres = [c \in Clients |-> NoFile]
    /\ hist = [nWrites |-> [i \in Ids |-> 0],
               kRemoved |-> [i \in Ids |-> FALSE],
               startedHeld |-> [k \in Keepers |-> FALSE],
               connTried |-> [k \in Keepers |-> FALSE],
               signalled |-> [k \in Keepers |-> FALSE],
               raised |-> {},
               executed |-> {}]

\* --------------------------------------------------------------- the Lock
\* (mutant) a lock call that never refuses
LockNeverRefused(k) == TRUE

\* fcntl.flock(LOCK_EX | LOCK_NB): granted at once iff no other open file holds it
LockFree(k) == \A j \in Keepers \ {k} : ~holds[j]

\* _release_lock: unlock and close the handle
ReleaseLock(k) == [holds EXCEPT ![k] = FALSE]

\* what start() does after _acquire_lock returned `got`
AfterAcquire(got) == IF got THEN "connect" ELSE "lock_failed"

\* main(): MT5Keeper(config) then start(), up to the return of _acquire_lock.
\* open(lock_file, 'w') creates or truncates the file before the flock is tried.
\* (Keeper processes are interchangeable: they are numbered in launch order.)
Start(k) ==
    /\ kpc[k] = "new"
    /\ \A j \in Keepers : j < k => kpc[j] # "new"
    /\ lockExists' = TRUE
    /\ holds' = [holds EXCEPT ![k] = LockFree(k)]
    /\ lockContent' = IF LockFree(k) THEN k ELSE 0
    /\ kpc' = [kpc EXCEPT ![k] = AfterAcquire(LockFree(k))]
    /\ hist' = [hist EXCEPT !.startedHeld[k] = \E j \in Keepers \ {k} : holds[j]]
    /\ UNCHANGED <<writable, conf, commands, results, nextId, running, connected, sinceHB,
                   sinceRA, queue, cur, resp, ksleep, cvars, gui>>

\* (mutant) start() returns on a failed connection without _release_lock
LockKeptOnConnectFailure(k, ok) == holds

\* the flock after the initial _connect_mt5 returned `ok`, lines 841-844
HoldsAfterConnect(k, ok) == IF ok THEN holds ELSE ReleaseLock(k)

\* start(): the initial _connect_mt5 (it succeeds iff the terminal answers);
\* on failure release the lock and return
Connect(k) ==
    /\ kpc[k] = "connect"
    /\ hist' = [hist EXCEPT !.connTried[k] = TRUE]
    /\ \E ok \in BOOLEAN :
         /\ holds' = HoldsAfterConnect(k, ok)
         /\ IF ok
              THEN /\ connected' = [connected EXCEPT ![k] = TRUE]
                   /\ running' = [running EXCEPT ![k] = TRUE]
                   /\ kpc' = [kpc EXCEPT ![k] = "loop"]
              ELSE /\ kpc' = [kpc EXCEPT ![k] = "exit"]
                   /\ UNCHANGED <<connected, running>>
    /\ UNCHANGED <<lockExists, lockContent, writable, conf, commands, results, nextId,
                   sinceHB, sinceRA, queue, cur, resp, ksleep, cvars, gui>>

\* ---------------------------------------------------------- the main loop
\* commands_dir.glob("*.json"): every entry that exists, finished or not
Glob == {i \in Ids : commands[i] # "absent"}

\* (mutant) a disconnected Keeper reconnects on every pass of the loop
ReconnectAlways(k) == ~connected[k]

\* (current_time - self.last_reconnect_attempt).total_seconds() >= self.reconnect_interval
ReconnectDue(k) == ~connected[k] /\ sinceRA[k] >= ReconnectInterval

\* self.connected after the reconnect block, `ok` being what _connect_mt5 met
ConnectedAfterReconnect(k, ok) == IF ReconnectDue(k) /\ ok THEN TRUE ELSE connected[k]

\* "if self.connected:" gates _check_commands and the heartbeat
Drains(conn) == conn

\* "while self.running", line 852: a Keeper whose running flag is down
\* leaves the loop and runs the finally clause, where stop() returns at once
WhileRunning(k) ==
    /\ \/ kpc[k] = "loop"
       \/ kpc[k] = "sleep" /\ ksleep[k] = 0
    /\ IF running[k]
         THEN /\ kpc' = [kpc EXCEPT ![k] = "top"]
              /\ UNCHANGED <<sinceHB, sinceRA>>
         ELSE /\ kpc' = [kpc EXCEPT ![k] = "stopped"]
              /\ sinceHB' = [sinceHB EXCEPT ![k] = 0]
              /\ sinceRA' = [sinceRA EXCEPT ![k] = 0]
    /\ UNCHANGED <<lvars, writable, conf, commands, results, nextId, running, connected,
                   queue, cur, resp, ksleep, cvars, hist, gui>>

\* The top of the loop body, lines 853-864: the reconnect attempt when
\* disconnected and due, then "if self.connected" with the listing of the
\* command files.
LoopTop(k) ==
    /\ kpc[k] = "top"
    /\ \E ok \in BOOLEAN :
         /\ connected' = [connected EXCEPT ![k] = ConnectedAfterReconnect(k, ok)]
         /\ sinceRA' = [sinceRA EXCEPT ![k] = IF ReconnectDue(k) THEN 0 ELSE @]
         /\ IF Drains(ConnectedAfterReconnect(k, ok))
              THEN /\ queue' = [queue EXCEPT ![k] = Glob]
                   /\ kpc' = [kpc EXCEPT ![k] = "drain"]
                   /\ UNCHANGED ksleep
              ELSE /\ kpc' = [kpc EXCEPT ![k] = "sleep"]
                   /\ ksleep' = [ksleep EXCEPT ![k] = CommandCheckInterval]
                   /\ UNCHANGED queue
    /\ UNCHANGED <<lvars, writable, conf, commands, results, nextId, running, sinceHB,
                   cur, resp, cvars, hist, gui>>

\* _process_command_file, lines 330-333: open and json.load the command file.
\* A missing file or an unfinished one raises inside the try.
ReadError(content) ==
    IF content = "absent" THEN "no_such_file"
    ELSE IF content = "partial" THEN "json_decode"
    ELSE "none"

\* _execute_command, lines 407-415 and 800-801: the result or the ValueError
\* of the kinds that need no call into the terminal, "call" for the others
Dispatch(k, id, kind) ==
    IF ~connected[k] THEN ErrorResponse(id, "not_connected")
    ELSE IF kind = "ping" THEN SuccessResponse(id, "pong")
    ELSE IF kind = "query" THEN [PartialFile EXCEPT !.body = "call"]
    ELSE ErrorResponse(id, "unsupported")

\* the response prepared for command file `id` holding `content`, lines 330-361
Response(k, id, content) ==
    IF ReadError(content) # "none" THEN ErrorResponse(id, ReadError(content))
    ELSE Dispatch(k, id, content)

\* the command file `id` is read whole and its kind has a handler, which
\* _execute_command runs, lines 340 and 410-798
Executes(k, id) ==
    /\ ReadError(commands[id]) = "none"
    /\ connected[k]
    /\ commands[id] \in {"ping", "query"}

\* (mutant) the command file is removed before the result is written
RemoveFirstOrder == <<"remove", "write", "dump">>

\* the order of the steps of _process_command_file once the response is
\* prepared: open the result file, dump and close it, remove the command file
ProcessOrder == <<"write", "dump", "remove">>

FirstStep == ProcessOrder[1]

\* (mutant) the next command is taken up as soon as the result is dumped
StepSkipsRemove(s) ==
    LET n == CHOOSE j \in 1..Len(ProcessOrder) : ProcessOrder[j] = s
    IN IF n < Len(ProcessOrder) - 1 THEN ProcessOrder[n + 1] ELSE "drain"

StepAfter(s) ==
    LET n == CHOOSE j \in 1..Len(ProcessOrder) : ProcessOrder[j] = s
    IN IF n < Len(ProcessOrder) THEN ProcessOrder[n + 1] ELSE "drain"

\* (mutant) the listing is walked oldest id first
OldestFirst(k) == {i \in queue[k] : \A j \in queue[k] : i <= j}

\* the files that may come next in "for command_file in command_files": glob
\* yields the directory's entries in no particular order
NextFiles(k) == queue[k]

\* one iteration of the for loop of _check_commands up to the prepared
\* response: command file i is read and dispatched
DrainOne(k, i) ==
    /\ kpc[k] = "drain"
    /\ i \in NextFiles(k)
    /\ queue' = [queue EXCEPT ![k] = @ \ {i}]
    /\ cur' = [cur EXCEPT ![k] = i]
    /\ IF Response(k, i, commands[i]).body = "call"
         THEN /\ kpc' = [kpc EXCEPT ![k] = "handler"]
              /\ UNCHANGED resp
         ELSE /\ resp' = [resp EXCEPT ![k] = Response(k, i, commands[i])]
              /\ kpc' = [kpc EXCEPT ![k] = FirstStep]
    /\ hist' = [hist EXCEPT !.executed = IF Executes(k, i) THEN @ \cup {<<k, i>>} ELSE @]
    /\ UNCHANGED <<lvars, writable, conf, commands, results, nextId, running, connected,
                   sinceHB, sinceRA, ksleep, cvars, gui>>

\* for command_file in command_files: the next file of the listing
DrainNext(k) == \E i \in Ids : DrainOne(k, i)

\* the response for a handler that returned (ok) or raised: the try/except
\* of _process_command_file, lines 339-361
HandlerResponse(k, ok) ==
    IF ok THEN SuccessResponse(cur[k], "data")
    ELSE ErrorResponse(cur[k], "handler_error")

\* (mutant) a raising handler ends the whole drain
QueueDroppedOnRaise(k, ok) == IF ok THEN queue[k] ELSE {}

\* what is left of the listing after the handler of the current command ended
QueueAfterHandler(k, ok) == queue[k]

\* a handler that calls the terminal (account_info, symbol_info, ...) ends,
\* after any delay, by returning or by raising
Handler(k) ==
    /\ kpc[k] = "handler"
    /\ \E ok \in BOOLEAN :
         /\ resp' = [resp EXCEPT ![k] = HandlerResponse(k, ok)]
         /\ queue' = [queue EXCEPT ![k] = QueueAfterHandler(k, ok)]
         /\ hist' = [hist EXCEPT !.raised = IF ok THEN @ ELSE @ \cup {cur[k]}]
    /\ kpc' = [kpc EXCEPT ![k] = FirstStep]
    /\ UNCHANGED <<lvars, writable, conf, commands, results, nextId, running, connected,
                   sinceHB, sinceRA, cur, ksleep, cvars, gui>>

\* the locals of _process_command_file once step s is done
CurAfter(k, s) == IF StepAfter(s) = "drain" THEN 0 ELSE cur[k]
RespAfter(k, s) == IF StepAfter(s) = "drain" THEN NoFile ELSE resp[k]

\* with open(result_file, 'w'): the file exists, empty, from here on
WriteOpen(k) ==
    /\ kpc[k] = "write"
    /\ results' = [results EXCEPT ![cur[k]] = PartialFile]
    /\ kpc' = [kpc EXCEPT ![k] = StepAfter("write")]
    /\ cur' = [cur EXCEPT ![k] = CurAfter(k, "write")]
    /\ resp' = [resp EXCEPT ![k] = RespAfter(k, "write")]
    /\ UNCHANGED <<lvars, writable, conf, commands, nextId, running, connected,
                   sinceHB, sinceRA, queue, ksleep, cvars, hist, gui>>

\* json.dump(response, f) and the close of the with block
WriteDump(k) ==
    /\ kpc[k] = "dump"
    /\ results' = [results EXCEPT ![cur[k]] = IF @.st = "absent" THEN @ ELSE resp[k]]
    /\ hist' = [hist EXCEPT !.nWrites[cur[k]] = IF @ < 2 THEN @ + 1 ELSE @]
    /\ kpc' = [kpc EXCEPT ![k] = StepAfter("dump")]
    /\ cur' = [cur EXCEPT ![k] = CurAfter(k, "dump")]
    /\ resp' = [resp EXCEPT ![k] = RespAfter(k, "dump")]
    /\ UNCHANGED <<lvars, writable, conf, commands, nextId, running, connected,
                   sinceHB, sinceRA, queue, ksleep, cvars, gui>>

\* (mutant) a failed os.remove takes the Keeper down
RunningUnlessRemoveFails(k) == running[k] /\ commands[cur[k]] # "absent"

\* self.running after os.remove(command_file): the except clause of lines
\* 374-375 logs a failed removal and nothing else
RunningAfterRemove(k) == running[k]

\* the command file after the Keeper's os.remove(command_file), line 371:
\* gone, unless the directory refuses the removal
CommandAfterRemove(k) == IF writable THEN "absent" ELSE commands[cur[k]]

\* (mutant) the Keeper clears the result file together with the command file
ResultsSweptOnRemove(k) == [results EXCEPT ![cur[k]] = NoFile]

\* the results directory after the removal step: the Keeper deletes no result
ResultsAfterRemove(k) == results

\* os.remove(command_file); a file that is gone or a directory that refuses
\* raises, which is logged
RemoveCommand(k) ==
    /\ kpc[k] = "remove"
    /\ running' = [running EXCEPT ![k] = RunningAfterRemove(k)]
    /\ commands' = [commands EXCEPT ![cur[k]] = CommandAfterRemove(k)]
    /\ results' = ResultsAfterRemove(k)
    /\ hist' = [hist EXCEPT !.kRemoved[cur[k]] =
                                @ \/ (commands[cur[k]] # "absent" /\ writable)]
    /\ kpc' = [kpc EXCEPT ![k] = StepAfter("remove")]
    /\ cur' = [cur EXCEPT ![k] = CurAfter(k, "remove")]
    /\ resp' = [resp EXCEPT ![k] = RespAfter(k, "remove")]
    /\ UNCHANGED <<lvars, writable, conf, nextId, connected,
                   sinceHB, sinceRA, queue, ksleep, cvars, gui>>

\* _heartbeat, reached with (now - last_heartbeat) >= heartbeat_interval:
\* terminal_info() answers iff this process is still initialized and the
\* terminal is up
HeartbeatDue(k) == sinceHB[k] >= HeartbeatInterval
HeartbeatOk(k, up) == connected[k] /\ up

\* the listing is exhausted: the periodic heartbeat, then time.sleep
DrainDone(k) ==
    /\ kpc[k] = "drain"
    /\ queue[k] = {}
    /\ \E up \in BOOLEAN :
         IF HeartbeatDue(k)
           THEN IF HeartbeatOk(k, up)
                  THEN /\ sinceHB' = [sinceHB EXCEPT ![k] = 0]
                       /\ UNCHANGED connected
                  ELSE /\ connected' = [connected EXCEPT ![k] = FALSE]
                       /\ UNCHANGED sinceHB
           ELSE UNCHANGED <<connected, sinceHB>>
    /\ kpc' = [kpc EXCEPT ![k] = "sleep"]
    /\ ksleep' = [ksleep EXCEPT ![k] = CommandCheckInterval]
    /\ UNCHANGED <<lvars, writable, conf, commands, results, nextId, running, sinceRA,
                   queue, cur, resp, cvars, hist, gui>>

\* ------------------------------------------------------- signals, crashes
\* stop(), lines 892-893: _disconnect_mt5 only when connected; mt5.shutdown()
\* may raise (`raises`), which is logged and leaves self.connected set
ConnectedAfterStop(k, raises) == connected[k] /\ raises

\* (mutant) an exception of the disconnect skips _release_lock
LockKeptOnDisconnectError(k, raises) ==
    IF connected[k] /\ raises THEN holds ELSE ReleaseLock(k)

\* stop(), line 896: _release_lock whatever the disconnect did
HoldsAfterStop(k, raises) == ReleaseLock(k)

\* _signal_handler -> stop(), run between two steps of the main thread:
\* nothing when not running; else running=False, _disconnect_mt5 when
\* connected (mt5.shutdown may raise: connected then stays set), _release_lock
Signal(k) ==
    /\ kpc[k] \in Live
    /\ hist' = [hist EXCEPT !.signalled[k] = TRUE]
    /\ IF running[k]
         THEN /\ running' = [running EXCEPT ![k] = FALSE]
              /\ \E raises \in BOOLEAN :
                   /\ connected' = [connected EXCEPT ![k] = ConnectedAfterStop(k, raises)]
                   /\ holds' = HoldsAfterStop(k, raises)
         ELSE UNCHANGED <<running, connected, holds>>
    /\ UNCHANGED <<lockExists, lockContent, writable, conf, commands, results, nextId, kpc,
                   sinceHB, sinceRA, queue, cur, resp, ksleep, cvars, gui>>

\* an exception escapes the loop body (lines 874-879): it is logged and the
\* finally clause runs stop() on the still running Keeper
LoopError(k) ==
    /\ \/ kpc[k] = "loop"
       \/ kpc[k] = "sleep" /\ ksleep[k] = 0
    /\ running[k]
    /\ running' = [running EXCEPT ![k] = FALSE]
    /\ \E raises \in BOOLEAN :
         /\ connected' = [connected EXCEPT ![k] = ConnectedAfterStop(k, raises)]
         /\ holds' = HoldsAfterStop(k, raises)
    /\ kpc' = [kpc EXCEPT ![k] = "stopped"]
    /\ sinceHB' = [sinceHB EXCEPT ![k] = 0]
    /\ sinceRA' = [sinceRA EXCEPT ![k] = 0]
    /\ UNCHANGED <<lockExists, lockContent, writable, conf, commands, results, nextId,
                   queue, cur, resp, ksleep, cvars, hist, gui>>

\* the Keeper process dies at any point; the operating system drops its flock
Crash(k) ==
    /\ kpc[k] \in Live
    /\ kpc' = [kpc EXCEPT ![k] = "crashed"]
    /\ holds' = ReleaseLock(k)
    /\ running' = [running EXCEPT ![k] = FALSE]
    /\ connected' = [connected EXCEPT ![k] = FALSE]
    /\ queue' = [queue EXCEPT ![k] = {}]
    /\ cur' = [cur EXCEPT ![k] = 0]
    /\ resp' = [resp EXCEPT ![k] = NoFile]
    /\ sinceHB' = [sinceHB EXCEPT ![k] = 0]
    /\ sinceRA' = [sinceRA EXCEPT ![k] = 0]
    /\ ksleep' = [ksleep EXCEPT ![k] = 0]
    /\ UNCHANGED <<lockExists, lockContent, writable, conf, commands, results, nextId, cvars, hist, gui>>

\* an operator removes the lock file left by a Keeper that no longer holds it
RemoveLockFile ==
    /\ lockExists
    /\ \A k \in Keepers : ~holds[k]
    /\ lockExists' = FALSE
    /\ lockContent' = 0
    /\ UNCHANGED <<holds, writable, conf, commands, results, nextId, kvars, cvars, hist, gui>>

\* ------------------------------------------------------------ the client
\* the permissions of the commands directory change
SetWritable ==
    /\ writable' = ~writable
    /\ UNCHANGED <<lvars, commands, results, nextId, kvars, cvars, hist, conf, gui>>

\* (mutant) the check looks at the lock file only
CheckLockOnly == lockExists

\* _check_keeper_running: the lock file exists and the commands directory is
\* writable (the commands and results directories themselves are created by
\* the Keeper's constructor, before its lock file, and stay)
CheckKeeperRunning == lockExists /\ writable

\* str(uuid.uuid4()): an id no call has used
FreshId == nextId

\* send_command, lines 167-192: the pre-check, the fresh id, and
\* open(command_file, 'w'), which creates the file empty.
\* (Client processes are interchangeable: they are numbered in call order.)
Submit(c) ==
    /\ cpc[c] = "idle"
    /\ \A j \in Clients : j < c => cpc[j] # "idle"
    /\ IF ~CheckKeeperRunning
         THEN /\ outcome' = [outcome EXCEPT ![c] = "not_running"]
              /\ cpc' = [cpc EXCEPT ![c] = "done"]
              /\ UNCHANGED <<commands, nextId, cid, ckind>>
         ELSE /\ \E kind \in Kinds : ckind' = [ckind EXCEPT ![c] = kind]
              /\ cid' = [cid EXCEPT ![c] = FreshId]
              /\ nextId' = nextId + 1
              /\ commands' = [commands EXCEPT ![FreshId] = "partial"]
              /\ cpc' = [cpc EXCEPT ![c] = "opened"]
              /\ UNCHANGED outcome
    /\ UNCHANGED <<lvars, writable, conf, results, kvars, elapsed, csleep, cres, hist, gui>>

\* json.dump(command_data, f) and the close of the with block, then
\* start_time = time.time(); an entry unlinked meanwhile stays unlinked
Publish(c) ==
    /\ cpc[c] = "opened"
    /\ commands' = [commands EXCEPT ![cid[c]] = IF @ = "absent" THEN @ ELSE ckind[c]]
    /\ elapsed' = [elapsed EXCEPT ![c] = 0]
    /\ cpc' = [cpc EXCEPT ![c] = "poll"]
    /\ UNCHANGED <<lvars, writable, conf, results, nextId, kvars, cid, ckind, csleep, outcome, cres, hist, gui>>

\* (mutant) a call that gives up leaves its command file behind
CommandLeftOnGiveUp(c) == commands[cid[c]]

\* lines 205-209 and 216-220: "if command_file.exists(): os.remove(command_file)"
\* inside try/except: the entry goes unless the directory refuses the removal
CommandAfterGiveUp(c) == IF writable THEN "absent" ELSE commands[cid[c]]

\* (mutant) the timeout is compared with a stale clock reading
TimedOutNever(c) == FALSE

\* time.time() - start_time > self.timeout
TimedOut(c) == elapsed[c] > Timeout

\* one pass of "while not result_file.exists()", lines 201-225
Poll(c) ==
    /\ \/ cpc[c] = "poll"
       \/ cpc[c] = "sleep" /\ csleep[c] = 0
    /\ IF results[cid[c]].st # "absent"
         THEN /\ cpc' = [cpc EXCEPT ![c] = "read"]
              /\ UNCHANGED <<commands, outcome, csleep>>
         ELSE IF TimedOut(c)
           THEN /\ commands' = [commands EXCEPT ![cid[c]] = CommandAfterGiveUp(c)]
                /\ outcome' = [outcome EXCEPT ![c] = "timeout"]
                /\ cpc' = [cpc EXCEPT ![c] = "done"]
                /\ UNCHANGED csleep
           ELSE IF ~CheckKeeperRunning
             THEN /\ commands' = [commands EXCEPT ![cid[c]] = CommandAfterGiveUp(c)]
                  /\ outcome' = [outcome EXCEPT ![c] = "keeper_gone"]
                  /\ cpc' = [cpc EXCEPT ![c] = "done"]
                  /\ UNCHANGED csleep
             ELSE /\ csleep' = [csleep EXCEPT ![c] = PollInterval]
                  /\ cpc' = [cpc EXCEPT ![c] = "sleep"]
                  /\ UNCHANGED <<commands, outcome>>
    /\ elapsed' = [elapsed EXCEPT ![c] = IF cpc'[c] = "done" THEN 0 ELSE @]
    /\ UNCHANGED <<lvars, writable, conf, results, nextId, kvars, cid, ckind, cres, hist, gui>>

\* how send_command ends once the result file was opened, lines 227-258
ReadOutcome(r) ==
    IF r.st = "partial" THEN "decode_error"
    ELSE IF r.st = "absent" THEN "read_error"
    ELSE IF r.status = "error" THEN "command_error"
    ELSE "payload"

\* open(result_file) and json.load, os.remove(result_file), the status check
Read(c) ==
    /\ cpc[c] = "read"
    /\ LET r == results[cid[c]] IN
         /\ outcome' = [outcome EXCEPT ![c] = ReadOutcome(r)]
         /\ IF r.st = "complete"
              THEN /\ cres' = [cres EXCEPT ![c] = r]
                   /\ results' = [results EXCEPT ![cid[c]] = NoFile]
              ELSE UNCHANGED <<cres, results>>
    /\ cpc' = [cpc EXCEPT ![c] = "done"]
    /\ elapsed' = [elapsed EXCEPT ![c] = 0]
    /\ UNCHANGED <<lvars, writable, conf, commands, nextId, kvars, cid, ckind, csleep, hist, gui>>

\* ------------------------------------------------------------------ time
\* a Keeper that is not started, has ended, waits for the terminal inside a
\* handler, or sleeps
KeeperWaits(k) ==
    \/ kpc[k] \in {"off", "new", "handler"} \cup Ended
    \/ kpc[k] = "sleep" /\ ksleep[k] > 0

ClientWaits(c) ==
    \/ cpc[c] \in {"off", "idle", "done"}
    \/ cpc[c] = "sleep" /\ csleep[c] > 0

Min(a, b) == IF a < b THEN a ELSE b

\* one unit of time passes for every process inside a sleep or a handler
Tick ==
    /\ \A k \in Keepers : KeeperWaits(k)
    /\ \A c \in Clients : ClientWaits(c)
    /\ \/ \E k \in Keepers : kpc[k] \in {"handler", "sleep"}
       \/ \E c \in Clients : cpc[c] = "sleep"
    /\ sinceHB' = [k \in Keepers |-> IF kpc[k] \in {"handler", "sleep"}
                                       THEN Min(sinceHB[k] + 1, HeartbeatInterval)
                                       ELSE sinceHB[k]]
    /\ sinceRA' = [k \in Keepers |-> IF kpc[k] \in {"handler", "sleep"}
                                       THEN Min(sinceRA[k] + 1, ReconnectInterval)
                                       ELSE sinceRA[k]]
    /\ ksleep' = [k \in Keepers |-> IF kpc[k] = "sleep" THEN ksleep[k] - 1 ELSE ksleep[k]]
    /\ elapsed' = [c \in Clients |-> IF cpc[c] = "sleep"
                                       THEN Min(elapsed[c] + 1, ElapsedCap)
                                       ELSE elapsed[c]]
    /\ csleep' = [c \in Clients |-> IF cpc[c] = "sleep" THEN csleep[c] - 1 ELSE csleep[c]]
    /\ UNCHANGED <<lvars, writable, conf, commands, results, nextId, kpc, running, connected, queue,
                   cur, resp, cpc, cid, ckind, outcome, cres, hist, gui>>

\* ------------------------------------------------------------ MT5Client
\* The client of the graphical interface (gui/utils/mt5_client.py).  Its
\* check_interval is counted in 1/32 of a second, which keeps every value the
\* growth by 1.5 produces an integer.

CheckIntervalMin == 160      \* check_interval = 5.0 seconds
CheckIntervalMax == 960      \* min(30.0, ...): 30 seconds
max_attempts == 3            \* attempts of one check_connection
max_failures == 3            \* failures the monitoring loop lets pass

\* everything but the MT5Client
nonGui == <<lvars, writable, commands, results, nextId, kvars, cvars, hist, conf>>

\* no MT5Client has been constructed
GuiOff ==
    [stage |-> "off", on_connection_change |-> FALSE, connected |-> FALSE,
     check_interval |-> CheckIntervalMin, monitoring_active |-> FALSE,
     monitoring_thread |-> 0, threads |-> <<>>, joining |-> FALSE,
     timed_out |-> FALSE, last |-> "none", checks |-> 0, answered |-> FALSE,
     returned |-> "none", notified |-> "none"]

\* MT5Client.__init__; the interface may then register on_connection_change
GuiNew(callback) ==
    [GuiOff EXCEPT !.stage = "on", !.on_connection_change = callback]

\* the parameters MT5CommandBase.send_command takes besides self
SendCommandParameters == {"command_type", "params"}

\* the call check_connection makes: send_command("ping", timeout=0.5)
PingCall == [positional |-> <<"ping">>, keywords |-> {"timeout"}]

\* Python binds a call only when every keyword names a parameter
Binds(call) == call.keywords \subseteq SendCommandParameters

\* one attempt of check_connection; answer: the Keeper would answer a ping
\* with a Success Result in time
Attempt(answer) ==
    IF ~Binds(PingCall) THEN "TypeError"
    ELSE IF answer THEN "success" ELSE "TimeoutError"

\* check_connection returns True from the first attempt that raises nothing
PingSucceeds(answers) ==
    \E a \in 1..max_attempts : Attempt(answers[a]) = "success"

\* if not was_connected and self.on_connection_change
NotifiesEstablished(was_connected, callback) == ~was_connected /\ callback

NotifiesLostAlways(was_connected, callback) == callback

\* if was_connected and self.on_connection_change
NotifiesLost(was_connected, callback) == was_connected /\ callback

BoolName(b) == IF b THEN "true" ELSE "false"

\* MT5Client.check_connection on the client g
CheckConnection(g, answers) ==
    LET ok == PingSucceeds(answers)
        notify == IF ok THEN NotifiesEstablished(g.connected, g.on_connection_change)
                        ELSE NotifiesLost(g.connected, g.on_connection_change)
    IN  [g EXCEPT !.connected = ok,
                  !.returned = BoolName(ok),
                  !.notified = IF notify THEN BoolName(ok) ELSE "none",
                  !.answered = \E a \in 1..max_attempts : answers[a],
                  !.checks = @ + 1]

GrowUncapped(interval) == (interval * 3) \div 2

\* min(30.0, self.check_interval * 1.5)
Grow(interval) ==
    IF (interval * 3) \div 2 < CheckIntervalMax
      THEN (interval * 3) \div 2 ELSE CheckIntervalMax

GuiThreads == 1..Len(gui.threads)

\* threading.Thread.is_alive of the thread self.monitoring_thread names
ThreadAlive ==
    /\ gui.monitoring_thread # 0
    /\ gui.threads[gui.monitoring_thread].state # "ended"

\* check_connection called by the interface or the bot
DirectCheck ==
    /\ gui.stage = "on"
    /\ gui.checks < MaxChecks
    /\ \E answers \in [1..max_attempts -> BOOLEAN] :
         gui' = CheckConnection(gui, answers)
    /\ UNCHANGED nonGui

\* MT5Client.start_monitoring
StartMonitoring ==
    /\ gui.stage = "on"
    /\ ~gui.joining
    /\ IF ThreadAlive
         THEN gui' = [gui EXCEPT !.last = "start"]
         ELSE /\ Len(gui.threads) < MaxThreads
              /\ gui' = [gui EXCEPT
                           !.monitoring_active = TRUE,
                           !.threads = Append(@, [state |-> "new",
                                                  connection_failures |-> 0]),
                           !.monitoring_thread = Len(gui.threads) + 1,
                           !.last = "start"]
    /\ UNCHANGED nonGui

\* MT5Client.stop_monitoring up to the call of join
StopMonitoring ==
    /\ gui.stage = "on"
    /\ ~gui.joining
    /\ IF ThreadAlive
         THEN gui' = [gui EXCEPT !.monitoring_active = FALSE,
                                 !.joining = TRUE, !.last = "stopping"]
         ELSE gui' = [gui EXCEPT !.last = "stop", !.timed_out = FALSE]
    /\ UNCHANGED nonGui

\* join(timeout=2.0) returns: the thread has ended, or the two seconds have
\* passed and the thread is still inside an iteration, whose calls and sleeps
\* have no upper bound
JoinReturns ==
    /\ gui.joining
    /\ ThreadAlive => gui.threads[gui.monitoring_thread].state = "body"
    /\ gui' = [gui EXCEPT !.joining = FALSE, !.last = "stop",
                          !.timed_out = ThreadAlive]
    /\ UNCHANGED nonGui

\* _monitoring_loop before the loop: the counters and check_interval
MonitorBegin(t) ==
    /\ gui.threads[t].state = "new"
    /\ gui' = [gui EXCEPT !.threads[t] = [state |-> "loop", connection_failures |-> 0],
                          !.check_interval = CheckIntervalMin]
    /\ UNCHANGED nonGui

\* while self.monitoring_active
MonitorWhile(t) ==
    /\ gui.threads[t].state = "loop"
    /\ gui' = [gui EXCEPT !.threads[t].state =
                            IF gui.monitoring_active THEN "body" ELSE "ended"]
    /\ UNCHANGED nonGui

\* the client after the connection check of one iteration; with the call
\* check_connection makes no check returns True, so the first branch is the
\* code's but no run takes it
MonitorChecked(g, t, answers) ==
    LET c == CheckConnection(g, answers)
        failures == g.threads[t].connection_failures + 1
    IN  IF c.connected
          THEN [c EXCEPT !.threads[t] = [state |-> "loop", connection_failures |-> 0],
                         !.check_interval = IF @ > CheckIntervalMin
                                              THEN CheckIntervalMin ELSE @]
          ELSE [c EXCEPT !.threads[t] = [state |-> "loop",
                                         connection_failures |-> failures],
                         !.check_interval = IF failures > max_failures
                                              THEN Grow(@) ELSE @]

\* one iteration of the loop: the connection check when it is due; the updates
\* of account and positions run only while connected and leave the fields
\* modelled here alone
MonitorIteration(t) ==
    /\ gui.threads[t].state = "body"
    /\ \/ /\ gui.checks < MaxChecks
          /\ \E answers \in [1..max_attempts -> BOOLEAN] :
               gui' = MonitorChecked(gui, t, answers)
       \/ gui' = [gui EXCEPT !.threads[t].state = "loop"]
    /\ UNCHANGED nonGui

\* ------------------------------------------------------- configuration
\* A configuration is a dictionary: a function from the keys it holds to
\* their values.  Times are written in tenths of the unit of the file.
NoConfig == [x \in {} |-> 0]

\* dict.update
Update(a, b) ==
    [x \in DOMAIN a \cup DOMAIN b |-> IF x \in DOMAIN b THEN b[x] ELSE a[x]]

\* dict.get(key, default)
Get(d, key, default) == IF key \in DOMAIN d THEN d[key] ELSE default

\* "timeout": 60000 (ms) of the Keeper's default_config
KeeperDefaultTimeout == 600000

\* "timeout": 60.0 (s) of the client's default_config
ClientDefaultTimeout == 600

\* "poll_interval": 0.5 (s) of the client's default_config
ClientDefaultPollInterval == 5

\* self.config.get("timeout", 10.0)
FallbackTimeout == 100

\* the Keeper's default_config, the keys a client reads as well
KeeperDefaults == [timeout |-> KeeperDefaultTimeout, debug |-> FALSE]

\* the client's default_config
ClientDefaults ==
    [timeout |-> ClientDefaultTimeout, poll_interval |-> ClientDefaultPollInterval,
     debug |-> FALSE]

\* the configuration files a Keeper may be started with (none is NoConfig)
KeeperFiles ==
    {Update(t, d) : t \in {NoConfig, [timeout |-> 300000], [timeout |-> 600000]},
                    d \in {NoConfig, [debug |-> FALSE], [debug |-> TRUE]}}

\* the configuration files a client may be constructed with
ClientFiles ==
    {Update(Update(t, p), d) :
        t \in {NoConfig, [timeout |-> 300], [timeout |-> 600]},
        p \in {NoConfig, [poll_interval |-> 5], [poll_interval |-> 10]},
        d \in {NoConfig, [debug |-> FALSE], [debug |-> TRUE]}}

NoResponse == [status |-> "none", error |-> "none", traceback |-> "null"]
NoError == [message |-> "none", detail |-> "null"]

\* no process loads a configuration
ConfOff ==
    [kstage |-> "off", cstage |-> "off", kuser |-> NoConfig, cuser |-> NoConfig,
     saved |-> FALSE, file |-> NoConfig, kconfig |-> NoConfig, cconfig |-> NoConfig,
     timeout |-> 0, poll_interval |-> 0, response |-> NoResponse, raised |-> NoError]

\* a Keeper and a client are about to be constructed, each with its file
InitConfig ==
    /\ InitWith(0, 0)
    /\ gui = GuiOff
    /\ \E ku \in KeeperFiles, cu \in ClientFiles :
         conf = [ConfOff EXCEPT !.kstage = "new", !.cstage = "new",
                                !.kuser = ku, !.cuser = cu]

\* MT5Keeper._load_config: the defaults updated with the Keeper's file, the
\* outcome saved as config.json in the working directory unless that fails
KeeperLoadConfig ==
    /\ conf.kstage = "new"
    /\ \E written \in BOOLEAN :
         LET config == Update(KeeperDefaults, conf.kuser) IN
         conf' = [conf EXCEPT !.kstage = "loaded",
                              !.kconfig = config,
                              !.saved = @ \/ written,
                              !.file = IF written THEN config ELSE @]
    /\ UNCHANGED <<lvars, writable, commands, results, nextId, kvars, cvars, hist, gui>>

\* MT5CommandBase._load_config: the defaults, updated with config.json of
\* the working directory when it exists and can be read, then with the
\* client's own file
LoadedConfig(readable) ==
    Update(Update(ClientDefaults,
                  IF conf.saved /\ readable THEN conf.file ELSE NoConfig),
           conf.cuser)

\* MT5CommandBase.__init__: the configuration is loaded, then timeout and
\* poll_interval are taken from it
ClientLoadConfig ==
    /\ conf.cstage = "new"
    /\ \E readable \in BOOLEAN :
         conf' = [conf EXCEPT !.cstage = "loaded",
                              !.cconfig = LoadedConfig(readable),
                              !.timeout = Get(LoadedConfig(readable), "timeout",
                                              FallbackTimeout),
                              !.poll_interval = Get(LoadedConfig(readable), "poll_interval",
                                                    ClientDefaultPollInterval)]
    /\ UNCHANGED <<lvars, writable, commands, results, nextId, kvars, cvars, hist, gui>>

\* (mutant) every error response carries the traceback
TracebackAlways(config) == "trace"

\* traceback.format_exc() if self.config.get("debug", False) else None
TracebackFor(config) == IF Get(config, "debug", FALSE) THEN "trace" ELSE "null"

\* the except clause of _process_command_file prepares the error response
KeeperFailure ==
    /\ conf.kstage = "loaded"
    /\ conf.response = NoResponse
    /\ conf' = [conf EXCEPT !.response = [status |-> "error", error |-> "message",
                                          traceback |-> TracebackFor(conf.kconfig)]]
    /\ UNCHANGED <<lvars, writable, commands, results, nextId, kvars, cvars, hist, gui>>

\* send_command finds status "error": the RuntimeError is built from the
\* "error" field; the traceback is at most logged
ClientRaise ==
    /\ conf.cstage = "loaded"
    /\ conf.response.status = "error"
    /\ conf.raised = NoError
    /\ conf' = [conf EXCEPT !.raised = [message |-> conf.response.error, detail |-> "null"]]
    /\ UNCHANGED <<lvars, writable, commands, results, nextId, kvars, cvars, hist, gui>>

\* ------------------------------------------------------ the specification
KeeperStep(k) ==
    \/ Start(k)
    \/ Connect(k)
    \/ WhileRunning(k)
    \/ LoopTop(k)
    \/ DrainNext(k)
    \/ DrainDone(k)
    \/ Handler(k)
    \/ WriteOpen(k)
    \/ WriteDump(k)
    \/ RemoveCommand(k)
    \/ Signal(k)
    \/ LoopError(k)
    \/ Crash(k)

ClientStep(c) ==
    \/ Submit(c)
    \/ Publish(c)
    \/ Poll(c)
    \/ Read(c)

Next ==
    \/ \E k \in Keepers : KeeperStep(k)
    \/ \E c \in Clients : ClientStep(c)
    \/ Tick
    \/ RemoveLockFile
    \/ SetWritable

\* the steps of a deployment whose directories keep the permissions they were
\* created with
NextSteady ==
    \/ \E k \in Keepers : KeeperStep(k)
    \/ \E c \in Clients : ClientStep(c)
    \/ Tick
    \/ RemoveLockFile

\* one Keeper serving concurrent clients
Init == InitWith(NumKeepers - 1, NumClients) /\ conf = ConfOff /\ gui = GuiOff
Spec == Init /\ [][NextSteady]_vars

\* the steps a started Keeper takes without waiting for anything
KeeperRuns(k) ==
    \/ Connect(k)
    \/ WhileRunning(k)
    \/ LoopTop(k)
    \/ DrainNext(k)
    \/ DrainDone(k)
    \/ WriteOpen(k)
    \/ WriteDump(k)
    \/ RemoveCommand(k)

\* one Keeper and one client with the scheduling the processes get: a process
\* that can take its next step takes it, and time passes
InitSolo == InitWith(NumKeepers - 1, NumClients - 1) /\ conf = ConfOff /\ gui = GuiOff
SpecFair ==
    /\ InitSolo /\ [][Next]_vars
    /\ WF_vars(Tick)
    /\ \A c \in Clients : WF_vars(Publish(c) \/ Poll(c) \/ Read(c))
    /\ \A k \in Keepers : WF_vars(KeeperRuns(k))

\* a Keeper and a client load their configurations, and a command fails
NextConfig ==
    \/ KeeperLoadConfig
    \/ ClientLoadConfig
    \/ KeeperFailure
    \/ ClientRaise

SpecConfig == InitConfig /\ [][NextConfig]_vars

\* Keepers competing for the role, serving a client
InitKeepers == InitWith(NumKeepers, NumClients - 1) /\ conf = ConfOff /\ gui = GuiOff
SpecKeepers == InitKeepers /\ [][NextSteady]_vars

\* the MT5Client alone: its checks, its monitoring threads and the calls the
\* interface makes
InitClient ==
    /\ InitWith(0, 0)
    /\ conf = ConfOff
    /\ \E callback \in BOOLEAN : gui = GuiNew(callback)

NextClient ==
    \/ DirectCheck
    \/ StartMonitoring
    \/ StopMonitoring
    \/ JoinReturns
    \/ \E t \in GuiThreads : MonitorBegin(t)
    \/ \E t \in GuiThreads : MonitorWhile(t)
    \/ \E t \in GuiThreads : MonitorIteration(t)

SpecClient == InitClient /\ [][NextClient]_vars

\* ================================================================ claims
NoCrash == \A k \in Keepers : kpc[k] # "crashed"

\* C1 - Mutual exclusion: at most one Keeper holds the Lock at any time, and
\* a Keeper started while another one holds it is refused at once and ends
\* without a connection attempt, without running, without touching a command.
C1_MutualExclusion ==
    /\ Cardinality({k \in Keepers : holds[k]}) <= 1
    /\ \A k \in Keepers :
         hist.startedHeld[k] =>
            /\ kpc[k] = "lock_failed"
            /\ ~holds[k] /\ ~running[k] /\ ~connected[k]
            /\ ~hist.connTried[k]
            /\ cur[k] = 0 /\ queue[k] = {}

C1_Witness ==
    \E k, j \in Keepers :
        /\ hist.startedHeld[k] /\ kpc[k] = "lock_failed"
        /\ holds[j] /\ running[j] /\ kpc[j] \in {"drain", "handler", "write", "dump", "remove"}

\* what a Result may hold for a command of this kind
ResultFits(kind, r) ==
    /\ r.status = "success" =>
          \/ kind = "ping" /\ r.body = "pong"
          \/ kind = "query" /\ r.body = "data"
    /\ r.body = "unsupported" => kind = "bad"
    /\ r.body = "handler_error" => kind = "query"

\* C2 - Correlation: the Result a send_command call reads carries the id
\* that this call generated and is the outcome of the command it published.
C2_Correlation ==
    \A c \in Clients :
        outcome[c] \in {"payload", "command_error"} =>
            /\ cres[c].command_id = cid[c]
            /\ ResultFits(ckind[c], cres[c])

C2_Witness ==
    \E c, d \in Clients :
        /\ outcome[c] = "payload" /\ outcome[d] = "payload"
        /\ ckind[c] = "ping" /\ ckind[d] = "query"
        /\ cres[c].command_id = cid[c] /\ cres[d].command_id = cid[d]

\* C3 - Atomicity ordering: a command file the Keeper has removed has had
\* its Result written before, also when the Keeper crashes while processing.
C3_ResultBeforeRemoval ==
    \A i \in Ids : hist.kRemoved[i] => hist.nWrites[i] >= 1

C3_Witness ==
    \E i \in Ids, k \in Keepers :
        /\ hist.kRemoved[i] /\ hist.nWrites[i] = 1
        /\ kpc[k] = "crashed"

\* C4 - At-most-one Result: in a run without a Keeper crash no command id
\* has its Result written twice.
C4_AtMostOneResult ==
    NoCrash => \A i \in Ids : hist.nWrites[i] <= 1

\* C5 - Disconnected rejection (as claimed): a loop pass of a running Keeper
\* that is disconnected answers every command visible in the channel with a
\* "not connected" Failure Result; none is left unanswered.
C5_DisconnectedRejection ==
    [][\A k \in Keepers :
          (/\ kpc[k] = "top"
           /\ kpc'[k] = "sleep" /\ ksleep'[k] = CommandCheckInterval
           /\ running[k] /\ running'[k] /\ ~connected'[k])
          => \A i \in Ids :
                commands[i] \in Kinds => results'[i] = ErrorResponse(i, "not_connected")]_vars

\* C6 - Atomic publish (as claimed): the Keeper never reads a command file
\* the client has not finished writing, and a client never reads a result
\* file the Keeper has not finished writing.
C6_AtomicPublish ==
    /\ \A k \in Keepers : resp[k].body # "json_decode"
    /\ \A i \in Ids : results[i].body # "json_decode"
    /\ \A c \in Clients : outcome[c] # "decode_error"

\* the step in which the handler of Keeper k raises
HandlerRaises(k) ==
    /\ kpc[k] = "handler"
    /\ kpc'[k] \notin {"handler", "crashed"}
    /\ resp'[k].status = "error"

\* C7 - Executor failure isolation: a raising handler yields a Failure
\* Result for its own command only; the step leaves running, connected, the
\* channel and the rest of the listing as they were, so the commands still
\* listed are processed and answered on their own merits.
C7_FailureIsolation ==
    /\ [](\A i \in Ids : results[i].body = "handler_error" =>
              /\ i \in hist.raised
              /\ results[i] = ErrorResponse(i, "handler_error"))
    /\ [][\A k \in Keepers :
            HandlerRaises(k) =>
               /\ resp'[k] = ErrorResponse(cur[k], "handler_error")
               /\ cur'[k] = cur[k]
               /\ queue'[k] = queue[k]
               /\ running'[k] = running[k] /\ connected'[k] = connected[k]
               /\ kpc'[k] = "write"
               /\ commands' = commands /\ results' = results]_vars

C7_Witness ==
    \E x, y \in Ids, k \in Keepers :
        /\ x # y
        /\ x \in hist.raised /\ y \notin hist.raised
        /\ results[x] = ErrorResponse(x, "handler_error")
        /\ results[y].status = "success"
        /\ running[k] /\ connected[k] /\ kpc[k] = "sleep"

\* the exception class (or return) behind each way send_command ends
Ending(o) ==
    CASE o = "payload" -> "return"
      [] o = "timeout" -> "TimeoutError"
      [] o \in {"command_error", "keeper_gone", "not_running", "decode_error", "read_error"}
           -> "RuntimeError"
      [] OTHER -> "none"

\* C8 - Bounded wait: every send_command call that published its command
\* ends; it is never found polling later than timeout plus one poll interval
\* after it started waiting; it ends by returning, by a RuntimeError or by
\* TimeoutError, and TimeoutError is raised only once more than `timeout`
\* has elapsed with no Result present.
C8_BoundedWait ==
    /\ [](\A c \in Clients :
            /\ cpc[c] \in {"poll", "sleep", "read"} => elapsed[c] <= Timeout + PollInterval
            /\ cpc[c] = "sleep" => csleep[c] <= PollInterval
            /\ cpc[c] = "done" <=> Ending(outcome[c]) # "none")
    /\ [][\A c \in Clients :
            (outcome[c] = "none" /\ outcome'[c] = "timeout") =>
                /\ elapsed[c] > Timeout
                /\ results[cid[c]].st = "absent"]_vars
    /\ \A c \in Clients :
            (cpc[c] \in {"opened", "poll", "sleep", "read"}) ~> (cpc[c] = "done")

C8_Witness ==
    \E c \in Clients :
        /\ outcome[c] = "timeout"
        /\ \E k \in Keepers : kpc[k] = "handler" /\ cur[k] = cid[c]

\* C9 - Timeout independence: a caller that timed out has read no Result and
\* never deletes one; the Keeper that was executing its command still writes
\* the Result, and the failed removal of the command file (the caller took
\* it away) changes neither running nor connected nor the rest of the drain.
C9_TimeoutIndependence ==
    /\ [](\A c \in Clients : outcome[c] = "timeout" =>
             /\ cres[c] = NoFile
             /\ \A k \in Keepers :
                   (cur[k] = cid[c] /\ kpc[k] = "remove") => results[cid[c]] = resp[k])
    /\ [][\A c \in Clients :
            (outcome[c] = "timeout" /\ results[cid[c]].st # "absent")
               => results'[cid[c]].st # "absent"]_vars
    /\ [][\A k \in Keepers :
            (kpc[k] = "remove" /\ kpc'[k] \notin {"remove", "crashed"}
             /\ commands[cur[k]] = "absent")
               => /\ kpc'[k] = "drain"
                  /\ running'[k] = running[k] /\ connected'[k] = connected[k]
                  /\ queue'[k] = queue[k] /\ results' = results]_vars

C9_Witness ==
    \E c \in Clients, k \in Keepers :
        /\ outcome[c] = "timeout"
        /\ results[cid[c]] = SuccessResponse(cid[c], "data")
        /\ ~hist.kRemoved[cid[c]]
        /\ running[k] /\ kpc[k] = "sleep"

\* C10 - Liveness probe round trip (as claimed): a ping whose Result the
\* caller found, served by a Keeper that runs and was never told to stop,
\* ended with the payload "pong".
C10_PingRoundTrip ==
    \A c \in Clients :
        (/\ ckind[c] = "ping"
         /\ outcome[c] \in {"payload", "command_error", "decode_error"}
         /\ \E k \in Keepers : running[k] /\ holds[k] /\ ~hist.signalled[k])
        => (outcome[c] = "payload" /\ cres[c] = SuccessResponse(cid[c], "pong"))

\* C11 - Unconditional lock release on shutdown: a running Keeper that shuts
\* down, on a stop signal or on an error escaping the main loop, has released
\* the Lock when stop() is over, also when the disconnect failed and left it
\* connected; a stopped Keeper does not hold the Lock.
C11_LockReleasedOnShutdown ==
    /\ [](\A k \in Keepers : kpc[k] = "stopped" => (~holds[k] /\ ~running[k]))
    /\ [][\A k \in Keepers :
            (running[k] /\ ~running'[k] /\ kpc'[k] # "crashed") => ~holds'[k]]_vars

C11_Witness ==
    \E k \in Keepers :
        /\ kpc[k] = "stopped" /\ ~hist.signalled[k]
        /\ connected[k] /\ ~holds[k]

\* C12 - Stop signal is honoured (as claimed): whenever a stop signal has
\* reached a Keeper that acquired the Lock, its running flag is down while
\* it is still alive, and (unless a handler never returns) it ends stopped
\* with the Lock released.
C12_StopSignalHonoured ==
    /\ [](\A k \in Keepers : (hist.signalled[k] /\ kpc[k] \in Live) => ~running[k])
    /\ \A k \in Keepers :
          hist.signalled[k] ~> \/ kpc[k] \in Ended /\ ~holds[k]
                               \/ kpc[k] = "handler"

\* C13 - A failed second start leaves the first Keeper untouched (as
\* claimed): the step in which a Keeper is refused the Lock changes neither
\* the holder's lock, flags and timers, nor the process id the lock file
\* shows, which is the holder's.
C13_FailedStartFrame ==
    [][\A k \in Keepers :
          (kpc[k] = "new" /\ kpc'[k] = "lock_failed") =>
             \A j \in Keepers \ {k} :
                holds[j] =>
                   /\ holds'[j]
                   /\ running'[j] = running[j] /\ connected'[j] = connected[j]
                   /\ sinceHB'[j] = sinceHB[j] /\ sinceRA'[j] = sinceRA[j]
                   /\ lockContent' = j]_vars

\* C14 - Startup connection failure: a Keeper whose initial connection fails
\* ends at once with the Lock released, without running, without having
\* listed, dispatched or answered a command; it never moves again, and a
\* Keeper started after it acquires the Lock.
C14_StartupConnectionFailure ==
    /\ [](\A k \in Keepers :
            kpc[k] = "exit" =>
               /\ ~holds[k] /\ ~running[k] /\ ~connected[k]
               /\ queue[k] = {} /\ cur[k] = 0 /\ resp[k] = NoFile)
    /\ [][\A k \in Keepers :
            /\ kpc'[k] = "exit" => kpc[k] \in {"connect", "exit"}
            /\ kpc[k] = "exit" => kpc'[k] = "exit"
            /\ (kpc[k] = "connect" /\ kpc'[k] = "exit") =>
                  (commands' = commands /\ results' = results /\ hist'.nWrites = hist.nWrites)
            /\ (/\ kpc[k] = "new" /\ kpc'[k] # "new"
                /\ \E j \in Keepers : kpc[j] = "exit"
                /\ \A j \in Keepers \ {k} : kpc[j] \in {"exit", "off"})
                  => (holds'[k] /\ kpc'[k] = "connect")]_vars

C14_Witness ==
    \E j, k \in Keepers :
        /\ kpc[j] = "exit" /\ hist.connTried[j]
        /\ holds[k] /\ running[k] /\ kpc[k] = "sleep"

\* the step of client c that leaves the pre-check of send_command
LeavesPreCheck(c) == cpc[c] = "idle" /\ cpc'[c] # "idle"

PollStep(c) ==
    /\ cpc[c] = "poll" \/ (cpc[c] = "sleep" /\ csleep[c] = 0)
    /\ cpc'[c] # cpc[c] \/ csleep'[c] # csleep[c]

C17_ResultConsumption ==
    \A c \in Clients :
        outcome[c] \in {"payload", "command_error", "decode_error", "read_error"} =>
            /\ results[cid[c]].st = "absent"
            /\ outcome[c] = "command_error" => cres[c].status = "error"
            /\ outcome[c] = "payload" => cres[c].status = "success"

\* C18 - Malformed entries are preserved (as claimed): the Keeper's removal
\* step for a command file it could not parse leaves that file in place.
C18_MalformedPreserved ==
    [][\A k \in Keepers :
          (kpc[k] = "remove" /\ kpc'[k] \notin {"remove", "crashed"}
           /\ resp[k].body = "json_decode")
             => commands'[cur[k]] = commands[cur[k]]]_vars

\* the step in which Keeper k dispatches a command of an unsupported kind
DispatchesUnsupported(k) ==
    /\ kpc[k] = "drain" /\ kpc'[k] \notin {"drain", "crashed"}
    /\ cur'[k] # 0 /\ commands[cur'[k]] = "bad" /\ connected[k]

\* command id was dispatched as a command of an unsupported kind, and no
\* Keeper is answering a half-written copy of it
AnsweredUnsupported(id) ==
    /\ id # 0
    /\ \/ results[id].body = "unsupported"
       \/ \E k \in Keepers : cur[k] = id /\ resp[k].body = "unsupported"
    /\ \A k \in Keepers : cur[k] = id => resp[k].body # "json_decode"

\* C19 - Unknown command kind (as claimed): dispatching a command of an
\* unsupported kind prepares the "unsupported" Failure for it and changes
\* neither running, connected nor the timers; in a run without a Keeper
\* crash no more than one Result is ever written for such a command.
C19_UnknownKind ==
    /\ [][\A k \in Keepers :
            DispatchesUnsupported(k) =>
               /\ resp'[k] = ErrorResponse(cur'[k], "unsupported")
               /\ running'[k] = running[k] /\ connected'[k] = connected[k]
               /\ sinceHB'[k] = sinceHB[k] /\ sinceRA'[k] = sinceRA[k]]_vars
    /\ [](NoCrash => \A c \in Clients :
             (ckind[c] = "bad" /\ AnsweredUnsupported(cid[c])) => hist.nWrites[cid[c]] <= 1)

\* C20 - No ordering guarantee: while a drain still has several commands
\* listed, each of them may be the next one processed; the drain ends only
\* when the whole listing has been processed; and clients that have read
\* their Results hold each its own, whichever came first.
C20_NoOrdering ==
    /\ \A k \in Keepers :
          /\ kpc[k] = "drain" => \A i \in queue[k] : ENABLED DrainOne(k, i)
          /\ kpc[k] = "sleep" => queue[k] = {}
    /\ \A c, d \in Clients :
          (c # d /\ cid[c] # 0 /\ cid[d] # 0) =>
             /\ cid[c] # cid[d]
             /\ outcome[c] = "payload" => cres[c].command_id = cid[c]

C20_Witness ==
    \E c, d \in Clients, k \in Keepers :
        /\ cid[c] < cid[d]
        /\ outcome[d] = "payload" /\ cres[d] = SuccessResponse(cid[d], "pong")
        /\ cpc[c] = "read" /\ results[cid[c]] = SuccessResponse(cid[c], "pong")
        /\ running[k] /\ connected[k] /\ holds[k]

\* every Keeper of the run has shut down cleanly and released the Lock
CleanlyShutDown ==
    /\ \E k \in Keepers : kpc[k] = "stopped" /\ hist.signalled[k]
    /\ \A k \in Keepers : kpc[k] \in {"off", "stopped"} /\ ~holds[k] /\ ~running[k]

\* C21 - Liveness check after shutdown (as claimed): a send_command call
\* made after the Keeper has shut down cleanly and released the Lock finds
\* _check_keeper_running False: it raises at once and publishes no command.
C21_CheckAfterShutdown ==
    [][\A c \in Clients :
          (LeavesPreCheck(c) /\ CleanlyShutDown)
             => /\ outcome'[c] = "not_running" /\ cpc'[c] = "done"
                /\ commands' = commands]_vars

\* the step in which Keeper k ends a drain: the heartbeat block, then the sleep
EndsDrain(k) == kpc[k] = "drain" /\ kpc'[k] = "sleep"

\* C25 - Heartbeat rule (as claimed): the Keeper probes the engine only
\* while connected and only when heartbeat_interval has passed since
\* last_heartbeat; a probe that succeeds sets last_heartbeat to now and
\* leaves connected set, a probe that fails clears connected and leaves
\* last_heartbeat alone; a pass without probe changes neither, and
\* last_heartbeat moves in no other step of a live Keeper.
C25_HeartbeatRule ==
    /\ [][\A k \in Keepers :
            EndsDrain(k) =>
               IF HeartbeatDue(k)
                 THEN /\ connected[k]
                      /\ \/ connected'[k] /\ sinceHB'[k] = 0
                         \/ ~connected'[k] /\ sinceHB'[k] = sinceHB[k]
                 ELSE connected'[k] = connected[k] /\ sinceHB'[k] = sinceHB[k]]_vars
    /\ [][\A k \in Keepers :
            (sinceHB'[k] < sinceHB[k] /\ kpc'[k] \in Live)
               => EndsDrain(k) /\ HeartbeatDue(k) /\ connected[k]]_vars

\* the step in which Keeper k goes over the top of its loop body
LoopPass(k) == kpc[k] = "top" /\ kpc'[k] \in {"drain", "sleep"}

\* C26 - Reconnect spacing: a pass of the loop attempts to reconnect only
\* when the Keeper is disconnected and reconnect_interval has passed since
\* last_reconnect_attempt, and then records the attempt's time whether it
\* succeeded or not; any other pass leaves connected and
\* last_reconnect_attempt alone; no other step of a live Keeper connects it
\* or moves last_reconnect_attempt, whose age grows by the time that passes.
C26_ReconnectSpacing ==
    /\ [][\A k \in Keepers :
            LoopPass(k) =>
               IF ~connected[k] /\ sinceRA[k] >= ReconnectInterval
                 THEN sinceRA'[k] = 0
                 ELSE sinceRA'[k] = sinceRA[k] /\ connected'[k] = connected[k]]_vars
    /\ [][\A k \in Keepers :
            (kpc[k] \in Live /\ kpc'[k] \in Live /\ kpc[k] # "connect"
             /\ (sinceRA'[k] < sinceRA[k] \/ (~connected[k] /\ connected'[k])))
               => LoopPass(k) /\ ~connected[k] /\ sinceRA[k] >= ReconnectInterval]_vars
    /\ [][\A k \in Keepers :
            sinceRA'[k] > sinceRA[k]
               => sinceRA'[k] = sinceRA[k] + 1 /\ kpc[k] \in {"handler", "sleep"}]_vars

C26_Witness ==
    \E k \in Keepers :
        /\ running[k] /\ ~connected[k] /\ ~hist.signalled[k]
        /\ kpc[k] = "sleep" /\ ksleep[k] = CommandCheckInterval
        /\ sinceRA[k] = 0 /\ sinceHB[k] >= HeartbeatInterval

\* C27 - Reconnect resets heartbeat timing (as claimed): a pass of the loop
\* whose reconnect attempt succeeds sets connected and restarts the
\* heartbeat clock, so that no probe is due before heartbeat_interval has
\* passed since the reconnect.
C27_ReconnectResetsHeartbeat ==
    [][\A k \in Keepers :
          (LoopPass(k) /\ ~connected[k] /\ connected'[k])
             => sinceHB'[k] = 0 /\ ~HeartbeatDue(k)']_vars

\* the positions of a Keeper inside _check_commands
Draining == {"drain", "handler", "write", "dump", "remove"}

\* the step in which Keeper k reads a command file, runs its handler, writes
\* its Result or removes it
Processes(k) ==
    /\ kpc[k] \in Draining /\ kpc'[k] \in Draining
    /\ kpc'[k] # kpc[k] \/ cur'[k] # cur[k]

\* C28 - Channel touched only by the Lock holder (as claimed): every read of
\* a command, handler invocation, Result write and command removal by a
\* Keeper is made while that Keeper holds the Lock, and two Keepers are
\* never inside _check_commands at the same time.
C28_ChannelOnlyAsHolder ==
    /\ [][\A k \in Keepers : Processes(k) => holds[k]]_vars
    /\ [](\A j, k \in Keepers : (kpc[j] \in Draining /\ kpc[k] \in Draining) => j = k)

\* the step in which Keeper k takes command file `id` from its listing and,
\* having read it whole, hands it to a handler
HandsOver(k, id) ==
    /\ kpc[k] = "drain" /\ cur[k] = 0 /\ cur'[k] = id
    /\ commands[id] \in {"ping", "query"} /\ connected[k]

\* C29 - At-most-once execution (as claimed): in a run without a Keeper
\* crash no command id is handed to a handler a second time, whether the
\* removal of its command file succeeded or failed.
C29_AtMostOnceExecution ==
    [][\A k \in Keepers, id \in Ids :
          (HandsOver(k, id) /\ NoCrash') => id \notin {e[2] : e \in hist.executed}]_vars

\* the call of client c gave up its command and removed the command file
GaveUp(c) == cid[c] # 0 /\ outcome[c] \in {"timeout", "keeper_gone"}

\* C30 - Cancelled before pickup (as claimed): a command file that its
\* client removed before the Keeper opened it gets no response prepared and
\* no Result written, although the Keeper had listed it (stated for the
\* runs in which no Keeper was sent a stop signal).
C30_CancelledBeforePickup ==
    \A c \in Clients :
        (GaveUp(c) /\ \A k \in Keepers : ~hist.signalled[k]) =>
           /\ results[cid[c]].body # "no_such_file"
           /\ \A k \in Keepers : cur[k] = cid[c] => resp[k].body # "no_such_file"

\* the step is one of client c's send_command
ClientActs(c) == cpc'[c] # cpc[c] \/ csleep'[c] > csleep[c]

\* the step is one of Keeper k
KeeperActs(k) == kpc'[k] # kpc[k] \/ cur'[k] # cur[k] \/ ksleep'[k] > ksleep[k]

\* C23 - Channel roles: a command entry is created only by the send_command
\* call that generated its id and a result entry only by a Keeper writing
\* the response of that command; a send_command call creates, reads and
\* deletes only the entries of its own id; a step of a Keeper deletes no
\* result entry.
C23_ChannelRoles ==
    [][/\ \A i \in Ids :
            /\ (commands[i] = "absent" /\ commands'[i] # "absent")
                  => \E c \in Clients : cpc[c] = "idle" /\ ClientActs(c) /\ cid'[c] = i
            /\ (results[i].st = "absent" /\ results'[i].st # "absent")
                  => \E k \in Keepers : kpc[k] = "write" /\ KeeperActs(k) /\ cur[k] = i
            /\ (results[i].st # "absent" /\ results'[i].st = "absent")
                  => \E c \in Clients : cpc[c] = "read" /\ ClientActs(c) /\ cid[c] = i
       /\ \A c \in Clients :
            ClientActs(c) =>
               /\ \A i \in Ids \ {cid'[c]} :
                     commands'[i] = commands[i] /\ results'[i] = results[i]
               /\ cres'[c] # cres[c] => cres'[c] = results[cid[c]]
       /\ \A k \in Keepers :
            KeeperActs(k) =>
               \A i \in Ids : results[i].st # "absent" => results'[i].st # "absent"]_vars

C23_Witness ==
    \E c, d \in Clients :
        /\ c # d /\ cid[c] # 0 /\ cid[d] # 0
        /\ outcome[c] = "payload" /\ cres[c].command_id = cid[c]
        /\ hist.kRemoved[cid[c]] /\ results[cid[c]].st = "absent"
        /\ commands[cid[d]] = ckind[d] /\ results[cid[d]].st = "absent"

\* C22 - Default client bounds (as claimed): a client constructed without a
\* configuration file of its own waits at most 60 s and polls every 0.5 s,
\* whether or not a Keeper has saved its configuration in the working
\* directory; a timeout or poll_interval of the client's own file overrides
\* the default.
C22_DefaultClientBounds ==
    conf.cstage = "loaded" =>
       /\ conf.cuser = NoConfig =>
             /\ conf.timeout = ClientDefaultTimeout
             /\ conf.poll_interval = ClientDefaultPollInterval
       /\ "timeout" \in DOMAIN conf.cuser => conf.timeout = conf.cuser["timeout"]
       /\ "poll_interval" \in DOMAIN conf.cuser
             => conf.poll_interval = conf.cuser["poll_interval"]

\* C24 - Diagnostic detail is gated by debug: the error response of the
\* Keeper carries the traceback exactly when the Keeper's configuration has
\* debug set (its file's value, False without one), null otherwise; the
\* error the client raises carries the message of the response and no detail.
C24_DetailGatedByDebug ==
    /\ conf.response.status = "error" =>
          LET debug == IF "debug" \in DOMAIN conf.kuser THEN conf.kuser["debug"] ELSE FALSE
          IN conf.response.traceback = IF debug THEN "trace" ELSE "null"
    /\ conf.raised # NoError =>
          conf.raised = [message |-> conf.response.error, detail |-> "null"]

C24_Witness ==
    /\ conf.kstage = "loaded" /\ conf.cstage = "loaded"
    /\ Get(conf.kuser, "debug", FALSE) /\ ~Get(conf.cuser, "debug", FALSE)
    /\ conf.response.status = "error" /\ conf.response.traceback = "trace"
    /\ conf.raised = [message |-> "message", detail |-> "null"]

\* the lifecycle state of Keeper k: Starting until start() has tried the
\* Lock, LockAcquired/Connecting while the initial _connect_mt5 runs,
\* Connected or Disconnected while it loops with self.running set, Stopped
\* once stop() has run or start() has returned
LifeState(k) ==
    CASE kpc[k] = "off" -> "Off"
      [] kpc[k] = "new" -> "Starting"
      [] kpc[k] = "lock_failed" -> "LockFailed"
      [] kpc[k] = "connect" -> "Connecting"
      [] kpc[k] = "crashed" -> "Crashed"
      [] kpc[k] \in {"exit", "stopped"} -> "Stopped"
      [] OTHER -> IF ~running[k] THEN "Stopped"
                  ELSE IF connected[k] THEN "Connected" ELSE "Disconnected"

\* the transitions of the lifecycle, with the return of start() after a
\* failed initial connection
Lifecycle ==
    {<<"Starting", "LockFailed">>, <<"Starting", "Connecting">>,
     <<"Connecting", "Connected">>, <<"Connecting", "Stopped">>,
     <<"Connected", "Disconnected">>, <<"Disconnected", "Connected">>,
     <<"Connected", "Stopped">>, <<"Disconnected", "Stopped">>}

\* C31 - Keeper lifecycle (as claimed, for Keepers that do not crash): the
\* state of a Keeper changes only along the transitions of the lifecycle;
\* LockFailed and Stopped are left by no step, and a stopped Keeper is
\* never set running or connected again.
C31_KeeperLifecycle ==
    [][\A k \in Keepers :
          kpc'[k] # "crashed" =>
             /\ LifeState(k)' # LifeState(k) => <<LifeState(k), LifeState(k)'>> \in Lifecycle
             /\ LifeState(k) = "Stopped" =>
                   /\ ~running'[k]
                   /\ connected'[k] => connected[k]]_vars

\* the positions of a Keeper between the call of a handler and the end of
\* _process_command_file
Processing == {"handler", "write", "dump", "remove"}

\* the step in which Keeper k takes command file `id` from its listing
Takes(k, id) == kpc[k] = "drain" /\ cur[k] = 0 /\ cur'[k] = id

C33_KeeperStateInvariant ==
    /\ [](\A k \in Keepers : running[k] => holds[k])
    /\ [][\A k \in Keepers : (~connected[k] /\ connected'[k]) => holds'[k]]_vars

\* a connection check has just returned
Checked == gui'.checks = gui.checks + 1

\* C34: check_connection returns True exactly when a ping succeeds within its
\* three attempts, and leaves connected with the value it returns; a running,
\* connected Keeper answers a ping with a Success Result, so a check made
\* while the Keeper answers returns True, and False is returned only when all
\* three attempts fail.
C34_CheckFollowsPing ==
    gui.checks > 0 =>
        /\ gui.returned = BoolName(gui.answered)
        /\ gui.connected = gui.answered

\* monitoring is active: the flag is set and the thread the client names lives
MonitoringActive == gui.monitoring_active /\ ThreadAlive

LiveThreads == {t \in GuiThreads : gui.threads[t].state # "ended"}

\* C35: at most one monitoring thread runs at a time, and monitoring is
\* active once start_monitoring has returned, also when it was called right
\* after a stop_monitoring whose join timed out.
C35_MonitoringAfterStart ==
    /\ Cardinality(LiveThreads) <= 1
    /\ gui.last = "start" => MonitoringActive

\* the thread t has just made the connection check of its iteration
LoopChecked(t) ==
    /\ t \in GuiThreads
    /\ gui.threads[t].state = "body"
    /\ gui'.threads[t].state = "loop"
    /\ Checked

\* C36: the check_interval of the monitoring loop stays within 5 and 30
\* seconds; a failed check that brings the consecutive failures above 3
\* multiplies it by 1.5, up to 30 seconds, a failed check before that leaves
\* it alone, and a successful check sets it back to 5 seconds.
C36_ClientBackoff ==
    /\ [](/\ gui.check_interval >= CheckIntervalMin
          /\ gui.check_interval <= CheckIntervalMax)
    /\ [][\A t \in GuiThreads : LoopChecked(t) =>
            IF gui'.returned = "true"
              THEN /\ gui'.check_interval = CheckIntervalMin
                   /\ gui'.threads[t].connection_failures = 0
              ELSE /\ gui'.threads[t].connection_failures
                        = gui.threads[t].connection_failures + 1
                   /\ gui'.check_interval =
                        IF gui.threads[t].connection_failures + 1 <= max_failures
                          THEN gui.check_interval
                        ELSE IF 2 * CheckIntervalMax < 3 * gui.check_interval
                          THEN CheckIntervalMax
                        ELSE (3 * gui.check_interval) \div 2]_vars

\* the loop has grown check_interval up to its cap
C36_Witness ==
    /\ gui.check_interval = CheckIntervalMax
    /\ \E t \in GuiThreads : /\ gui.threads[t].state = "loop"
                             /\ gui.threads[t].connection_failures > max_failures + 4

\* C37: on_connection_change is called only by a check that changes the
\* connected flag, with the new value: two checks in a row with the same
\* outcome call it at most once, and a failing check of a client that was
\* never connected does not call it.
C37_CallbackOnChangeOnly ==
    [][Checked /\ gui'.notified # "none" =>
          /\ gui'.connected # gui.connected
          /\ gui'.notified = BoolName(gui'.connected)]_vars

\* a client with a callback has failed two checks and the last one called
\* nothing
C37_Witness ==
    /\ gui.on_connection_change
    /\ gui.checks >= 2
    /\ gui.returned = "false"
    /\ gui.notified = "none"

====
